---- MODULE Spec2Model ----
(***************************************************************************)
(* Model of dataset/tools/convert_label.py: the conversion of grouped      *)
(* corner-point annotations into bbox / rrect training labels.             *)
(*                                                                         *)
(* Numbers.  Pixel coordinates and image sizes are integers.  Lengths      *)
(* (np.linalg.norm) and centres (np.mean) are kept in whole units, rounded *)
(* down; axis-aligned rectangles with even sides make them exact.          *)
(* The relative threshold of the size filter is the rational               *)
(* num / FilterThresholdDen, compared by cross-multiplication.             *)
(* rot_angle (line 43) is left out of the rrect tuple: it is a             *)
(* transcendental value that nothing in the pipeline reads back.           *)
(*                                                                         *)
(* A Python dict (insertion ordered) is a sequence of [k, v] entries.      *)
(* A JSON member that may be missing or null is a record [t, v] with       *)
(* t in {"absent", "null", "int"}.                                         *)
(***************************************************************************)
EXTENDS Integers, Sequences, FiniteSets, TLC

VARIABLES
    pc,                 \* position of the operation under study
    shapes,             \* parse_label_file: label_obj['shapes']
    shape_i,            \* parse_label_file: shapes consumed so far
    vertices_map,       \* group_id -> list of vertices
    pids_map,           \* group_id -> list of part ids
    status,             \* "ok" or the name of the exception raised
    dst_format,         \* 'rrect', 'bbox' or something else
    group_i,            \* process_instances: groups consumed so far
    instances,          \* list of label_elements
    inst_i,             \* filter_small_instances: instances consumed so far
    filtered_instances, \* filter_small_instances: its result list
    img_w, img_h,       \* image size
    filter_threshold,   \* numerator of the relative threshold
    vertices,           \* vertices_to_rrect: its argument
    rot_rect,           \* vertices_to_rrect: its result
    label_paths,        \* convert_save: the label files found by rglob
    file_i,             \* convert_save: label files handed to the parser
    fs,                 \* the two output files next to the data root
    fs0,                \* fs as it was when convert_save was called
    f                   \* convert_save: the output handle

vars == <<pc, shapes, shape_i, vertices_map, pids_map, status, dst_format,
          group_i, instances, inst_i, filtered_instances, img_w, img_h,
          filter_threshold, vertices, rot_rect, label_paths, file_i, fs,
          fs0, f>>

parseVars == <<shapes, shape_i>>
procVars == <<group_i>>
filterVars == <<inst_i, filtered_instances, filter_threshold>>
rrectVars == <<vertices, rot_rect>>
convVars == <<label_paths, file_i, fs, fs0, f>>

-----------------------------------------------------------------------------
(* Bounds of the model. *)
MaxShapes == 3
MaxGroups == 2
MaxInstances == 2
MaxCoord == 2
MaxFiles == 3

-----------------------------------------------------------------------------
(* Python dict with insertion order, and defaultdict(list).append *)

Keys(m) == {m[i].k : i \in 1..Len(m)}

Lookup(m, key) == (CHOOSE i \in 1..Len(m) : m[i].k = key)

Get(m, key) == m[Lookup(m, key)].v

DictAppend(m, key, x) ==
    IF key \in Keys(m)
    THEN [m EXCEPT ![Lookup(m, key)].v = Append(@, x)]
    ELSE Append(m, [k |-> key, v |-> <<x>>])

RECURSIVE Insert(_, _)
Insert(x, s) ==
    IF s = <<>> THEN <<x>>
    ELSE IF x <= Head(s) THEN <<x>> \o s
    ELSE <<Head(s)>> \o Insert(x, Tail(s))

NoSort(s) == s

\* list.sort()
RECURSIVE Sort(_)
Sort(s) == IF s = <<>> THEN <<>> ELSE Insert(Head(s), Sort(Tail(s)))

-----------------------------------------------------------------------------
(* JSON values *)

Absent == [t |-> "absent", v |-> 0]
Null == [t |-> "null", v |-> 0]
JInt(n) == [t |-> "int", v |-> n]

Truthy(j) == j.t = "int" /\ j.v # 0

ParseInt(s) ==
    CASE s = "-1" -> -1
      [] s = "0" -> 0
      [] s = "1" -> 1
      [] s = "2" -> 2
      [] s = "3" -> 3
      [] s = "4" -> 4
      [] s = "5" -> 5
      [] s = "6" -> 6
      [] s = "7" -> 7

-----------------------------------------------------------------------------
(* parse_label_file *)

Excluded(shape) ==
    \/ shape.shape_type # "point"
    \/ ParseInt(shape.label) = -1
    \/ ParseInt(shape.label) = 7

GroupIdOf(shape) == IF Truthy(shape.group_id) THEN shape.group_id.v ELSE 0

ParseStepNoPid(st, shape) ==
    IF st.status # "ok" \/ Excluded(shape) THEN st
    ELSE IF shape.group_id.t = "absent" THEN [st EXCEPT !.status = "KeyError"]
    ELSE [st EXCEPT
            !.vertices_map = DictAppend(@, GroupIdOf(shape), shape.points[1])]

ParseStep(st, shape) ==
    IF st.status # "ok" \/ Excluded(shape) THEN st
    ELSE IF shape.group_id.t = "absent" THEN [st EXCEPT !.status = "KeyError"]
    ELSE [st EXCEPT
            !.vertices_map = DictAppend(@, GroupIdOf(shape), shape.points[1]),
            !.pids_map = DictAppend(@, GroupIdOf(shape), ParseInt(shape.label))]

ParseStart == [status |-> "ok", vertices_map |-> <<>>, pids_map |-> <<>>]

RECURSIVE ParseShapes(_, _)
ParseShapes(st, ss) ==
    IF ss = <<>> THEN st ELSE ParseShapes(ParseStep(st, Head(ss)), Tail(ss))

ParseLabelFile(file) ==
    IF ~file.json_ok
    THEN [status |-> "JSONDecodeError", vertices_map |-> <<>>,
          pids_map |-> <<>>, img_w |-> 0, img_h |-> 0]
    ELSE LET st == ParseShapes(ParseStart, file.shapes)
         IN  [status |-> st.status, vertices_map |-> st.vertices_map,
              pids_map |-> st.pids_map, img_w |-> file.imageWidth,
              img_h |-> file.imageHeight]

-----------------------------------------------------------------------------
(* vertices_to_bbox *)

Xs(vs) == {vs[i][1] : i \in 1..Len(vs)}
Ys(vs) == {vs[i][2] : i \in 1..Len(vs)}
Min(S) == CHOOSE x \in S : \A y \in S : x <= y
Max(S) == CHOOSE x \in S : \A y \in S : y <= x

VerticesToBbox(vs) == <<Min(Xs(vs)), Min(Ys(vs)), Max(Xs(vs)), Max(Ys(vs))>>

-----------------------------------------------------------------------------
(* vertices_to_rrect *)

RECURSIVE SumSeq(_)
SumSeq(s) == IF s = <<>> THEN 0 ELSE Head(s) + SumSeq(Tail(s))

RECURSIVE Climb(_, _, _)
Climb(n, r, step) ==
    IF (r + step) * (r + step) <= n THEN Climb(n, r + step, step) ELSE r

\* floor of the square root
ISqrt(n) == Climb(n, Climb(n, 0, 100), 1)

Norm(a, b) ==
    ISqrt((a[1] - b[1]) * (a[1] - b[1]) + (a[2] - b[2]) * (a[2] - b[2]))

\* the order of np.arctan2(y, x) over (-pi, pi], on exact direction vectors
AngleClass(d) ==
    IF d[2] < 0 THEN 0
    ELSE IF d[2] > 0 THEN 2
    ELSE IF d[1] >= 0 THEN 1 ELSE 3

AngleLess(a, b) ==
    \/ AngleClass(a) < AngleClass(b)
    \/ /\ AngleClass(a) = AngleClass(b)
       /\ AngleClass(a) \in {0, 2}
       /\ a[1] * b[2] - a[2] * b[1] > 0

\* vertex minus centroid, scaled by the number of vertices
Direction(vs, i) ==
    <<Len(vs) * vs[i][1] - SumSeq([j \in 1..Len(vs) |-> vs[j][1]]),
      Len(vs) * vs[i][2] - SumSeq([j \in 1..Len(vs) |-> vs[j][2]])>>

RECURSIVE InsertByAngle(_, _, _)
InsertByAngle(vs, i, idx) ==
    IF idx = <<>> THEN <<i>>
    ELSE IF AngleLess(Direction(vs, i), Direction(vs, Head(idx)))
         THEN <<i>> \o idx
         ELSE <<Head(idx)>> \o InsertByAngle(vs, i, Tail(idx))

RECURSIVE ArgsortUpTo(_, _)
ArgsortUpTo(vs, n) ==
    IF n = 0 THEN <<>> ELSE InsertByAngle(vs, n, ArgsortUpTo(vs, n - 1))

\* np.argsort(angles): stable for the short arrays it is given
Argsort(vs) == ArgsortUpTo(vs, Len(vs))

SortedVertices(vs) == [i \in 1..Len(vs) |-> vs[Argsort(vs)[i]]]

\* np.mean of one number is that number
NpMeanScalar(x) == x

Center(vs) ==
    <<SumSeq([j \in 1..Len(vs) |-> vs[j][1]]) \div Len(vs),
      SumSeq([j \in 1..Len(vs) |-> vs[j][2]]) \div Len(vs)>>

VerticesToRrect(vs) ==
    IF Len(vs) < 4 THEN [status |-> "IndexError", rect |-> <<>>]
    ELSE LET b == SortedVertices(vs)
             rect_w == NpMeanScalar(Norm(b[2], b[1]) + Norm(b[4], b[3]))
             rect_h == NpMeanScalar(Norm(b[3], b[2]) + Norm(b[1], b[4]))
         IN  [status |-> "ok",
              rect |-> <<Center(vs)[1], Center(vs)[2], rect_w, rect_h>>]

-----------------------------------------------------------------------------
(* misc.valid_pids_map: sorted part-id tuple -> class label *)

valid_pids_map == (<<0, 1, 2, 3>> :> 2) @@ (<<4, 4, 4, 5>> :> 1)

-----------------------------------------------------------------------------
(* process_instances *)

Supported(fmt) == fmt \in {"rrect", "bbox"}

\* line 91
InCatalogue(pids) == pids \in DOMAIN valid_pids_map

\* lines 95-106: the body of the else branch, for one accepted group
LabelElements(vs, label, fmt) ==
    IF fmt = "rrect"
    THEN LET r == VerticesToRrect(vs)
         IN  [status |-> r.status, elements |-> r.rect \o <<label>>]
    ELSE IF fmt = "bbox"
    THEN [status |-> "ok", elements |-> VerticesToBbox(vs) \o <<label>>]
    ELSE [status |-> "ValueError", elements |-> <<>>]

\* one iteration of the for loop of lines 89-106, on the i-th dict entry
ProcStep(st, vmap, fmt, i) ==
    LET pids == st.pids_map[i].v
        sorted == Sort(pids)
    IN  IF st.status # "ok" THEN st
        ELSE IF ~InCatalogue(sorted)
        THEN [st EXCEPT !.pids_map[i].v = sorted]
        ELSE LET le == LabelElements(Get(vmap, st.pids_map[i].k),
                                     valid_pids_map[sorted], fmt)
             IN  IF le.status # "ok"
                 THEN [st EXCEPT !.pids_map[i].v = sorted,
                                 !.status = le.status]
                 ELSE [st EXCEPT !.pids_map[i].v = sorted,
                                 !.instances = Append(@, le.elements)]

RECURSIVE ProcFrom(_, _, _, _)
ProcFrom(st, vmap, fmt, i) ==
    IF i > Len(st.pids_map) THEN st
    ELSE ProcFrom(ProcStep(st, vmap, fmt, i), vmap, fmt, i + 1)

ProcessInstances(vmap, pmap, fmt) ==
    ProcFrom([status |-> "ok", instances |-> <<>>, pids_map |-> pmap],
             vmap, fmt, 1)

-----------------------------------------------------------------------------
(* filter_small_instances *)

FilterThresholdDen == 1000
DefaultFilterThreshold == 5

InstanceW(inst, fmt) == IF fmt = "rrect" THEN inst[3] ELSE inst[3] - inst[1]
InstanceH(inst, fmt) == IF fmt = "rrect" THEN inst[4] ELSE inst[4] - inst[2]

TooSmallBoth(inst, w, h, thr, fmt) ==
    /\ InstanceW(inst, fmt) * FilterThresholdDen < thr * w
    /\ InstanceH(inst, fmt) * FilterThresholdDen < thr * h

\* line 119: instance_w / img_w < thr or instance_h / img_h < thr
TooSmall(inst, w, h, thr, fmt) ==
    \/ InstanceW(inst, fmt) * FilterThresholdDen < thr * w
    \/ InstanceH(inst, fmt) * FilterThresholdDen < thr * h

\* one iteration of the for loop of lines 112-123
FilterStep(st, inst, w, h, thr, fmt) ==
    IF st.status # "ok" THEN st
    ELSE IF ~Supported(fmt) THEN [st EXCEPT !.status = "ValueError"]
    ELSE IF TooSmall(inst, w, h, thr, fmt) THEN st
    ELSE [st EXCEPT !.instances = Append(@, inst)]

RECURSIVE FilterFrom(_, _, _, _, _, _)
FilterFrom(st, insts, w, h, thr, fmt) ==
    IF insts = <<>> THEN st
    ELSE FilterFrom(FilterStep(st, Head(insts), w, h, thr, fmt),
                    Tail(insts), w, h, thr, fmt)

FilterSmallInstances(insts, w, h, thr, fmt) ==
    FilterFrom([status |-> "ok", instances |-> <<>>], insts, w, h, thr, fmt)

-----------------------------------------------------------------------------
(* Values the variables hold while another operation is under study *)

NoFile == [exists |-> FALSE, lines |-> <<>>]
NoFs == [rrect_all |-> NoFile, bbox_all |-> NoFile]

IdleParse == shapes = <<>> /\ shape_i = 0
IdleMaps == vertices_map = <<>> /\ pids_map = <<>>
IdleProc == group_i = 0
IdleInstances == instances = <<>>
IdleFilter == inst_i = 0 /\ filtered_instances = <<>> /\ filter_threshold = 0
IdleImage == img_w = 0 /\ img_h = 0
IdleRrect == vertices = <<>> /\ rot_rect = <<>>
IdleConv ==
    /\ label_paths = <<>>
    /\ file_i = 0
    /\ fs = NoFs
    /\ fs0 = NoFs
    /\ f = "unopened"

SeqsUpTo(S, n) == UNION {[1..m -> S] : m \in 0..n}

-----------------------------------------------------------------------------
(* parse_label_file, one shape at a time *)

PointOf(label) == IF label = "0" THEN <<1, 2>> ELSE <<3, 4>>

ShapeSet ==
    {[shape_type |-> "rectangle", label |-> "0", group_id |-> Absent,
      points |-> <<<<0, 0>>, <<2, 2>>>>]}
    \cup {[shape_type |-> "point", label |-> l, group_id |-> Absent,
           points |-> <<<<5, 5>>>>] : l \in {"-1", "7"}}
    \cup {[shape_type |-> "point", label |-> l, group_id |-> g,
           points |-> <<PointOf(l)>>] :
            l \in {"0", "4"}, g \in {Absent, Null, JInt(0), JInt(1)}}

InitParse ==
    /\ pc = "parse"
    /\ shapes \in SeqsUpTo(ShapeSet, MaxShapes)
    /\ shape_i = 0
    /\ vertices_map = <<>>
    /\ pids_map = <<>>
    /\ status = "ok"
    /\ dst_format = "rrect"
    /\ IdleProc /\ IdleInstances /\ IdleFilter /\ IdleImage /\ IdleRrect
    /\ IdleConv

\* lines 73-81: one iteration of the loop over label_obj['shapes']
ParseShape ==
    /\ pc = "parse"
    /\ shape_i < Len(shapes)
    /\ LET st == ParseStep([status |-> status, vertices_map |-> vertices_map,
                            pids_map |-> pids_map], shapes[shape_i + 1])
       IN  /\ vertices_map' = st.vertices_map
           /\ pids_map' = st.pids_map
           /\ status' = st.status
           /\ pc' = IF st.status = "ok" THEN "parse" ELSE "parse_raised"
    /\ shape_i' = shape_i + 1
    /\ UNCHANGED <<shapes, dst_format, procVars, instances, filterVars,
                   img_w, img_h, rrectVars, convVars>>

\* line 83
ParseReturn ==
    /\ pc = "parse"
    /\ shape_i = Len(shapes)
    /\ pc' = "parse_done"
    /\ UNCHANGED <<shapes, shape_i, vertices_map, pids_map, status,
                   dst_format, procVars, instances, filterVars, img_w, img_h,
                   rrectVars, convVars>>

NextParse == ParseShape \/ ParseReturn

SpecParse == InitParse /\ [][NextParse]_vars

-----------------------------------------------------------------------------
(* process_instances, one group at a time *)

Square(a, b) == <<<<a, a>>, <<b, a>>, <<b, b>>, <<a, b>>>>
Thin(a, b, c) == <<<<a, a>>, <<b, a>>, <<b, c>>, <<a, c>>>>

GroupSet ==
    { [pids |-> <<3, 1, 0, 2>>, vs |-> Square(100, 300)],
      [pids |-> <<0, 1, 2, 3>>, vs |-> Square(0, 2)],
      [pids |-> <<4, 5, 4, 4>>, vs |-> Thin(100, 300, 102)],
      [pids |-> <<0, 1, 2, 2>>, vs |-> Square(100, 300)],
      [pids |-> <<1, 0>>, vs |-> <<<<100, 100>>, <<300, 300>>>>],
      [pids |-> <<0, 0, 1, 2, 3>>,
       vs |-> Square(100, 300) \o <<<<200, 200>>>>] }

Formats == {"rrect", "bbox", "yolo"}

InitProcess ==
    /\ pc = "proc"
    /\ \E gs \in SeqsUpTo(GroupSet, MaxGroups) :
        /\ vertices_map = [i \in 1..Len(gs) |-> [k |-> i - 1, v |-> gs[i].vs]]
        /\ pids_map = [i \in 1..Len(gs) |-> [k |-> i - 1, v |-> gs[i].pids]]
    /\ dst_format \in Formats
    /\ group_i = 0
    /\ instances = <<>>
    /\ status = "ok"
    /\ IdleParse /\ IdleFilter /\ IdleImage /\ IdleRrect /\ IdleConv

\* lines 89-106: one iteration of the loop over pids_map.items()
ProcGroup ==
    /\ pc = "proc"
    /\ group_i < Len(pids_map)
    /\ LET st == ProcStep([status |-> status, instances |-> instances,
                           pids_map |-> pids_map],
                          vertices_map, dst_format, group_i + 1)
       IN  /\ instances' = st.instances
           /\ pids_map' = st.pids_map
           /\ status' = st.status
           /\ pc' = IF st.status = "ok" THEN "proc" ELSE "proc_raised"
    /\ group_i' = group_i + 1
    /\ UNCHANGED <<parseVars, vertices_map, dst_format, filterVars, img_w,
                   img_h, rrectVars, convVars>>

\* line 107
ProcReturn ==
    /\ pc = "proc"
    /\ group_i = Len(pids_map)
    /\ pc' = "proc_done"
    /\ UNCHANGED <<parseVars, vertices_map, pids_map, status, dst_format,
                   procVars, instances, filterVars, img_w, img_h, rrectVars,
                   convVars>>

NextProcess == ProcGroup \/ ProcReturn

SpecProcess == InitProcess /\ [][NextProcess]_vars

-----------------------------------------------------------------------------
(* filter_small_instances, one instance at a time *)

InstanceSet ==
    {<<a, 0, c, d, 1>> : a \in {0, 4}, c \in {4, 8, 9}, d \in {4, 9}}

ImageSizes == {<<1000, 1000>>, <<2000, 1000>>}

Thresholds == {DefaultFilterThreshold, 8}

InitFilter ==
    /\ pc = "filter"
    /\ instances \in SeqsUpTo(InstanceSet, MaxInstances)
    /\ \E size \in ImageSizes : img_w = size[1] /\ img_h = size[2]
    /\ filter_threshold \in Thresholds
    /\ dst_format \in Formats
    /\ inst_i = 0
    /\ filtered_instances = <<>>
    /\ status = "ok"
    /\ IdleParse /\ IdleMaps /\ IdleProc /\ IdleRrect /\ IdleConv

\* lines 112-123: one iteration of the loop over instances
FilterInstance ==
    /\ pc = "filter"
    /\ inst_i < Len(instances)
    /\ LET st == FilterStep([status |-> status,
                             instances |-> filtered_instances],
                            instances[inst_i + 1], img_w, img_h,
                            filter_threshold, dst_format)
       IN  /\ filtered_instances' = st.instances
           /\ status' = st.status
           /\ pc' = IF st.status = "ok" THEN "filter" ELSE "filter_raised"
    /\ inst_i' = inst_i + 1
    /\ UNCHANGED <<parseVars, vertices_map, pids_map, dst_format, procVars,
                   instances, filter_threshold, img_w, img_h, rrectVars,
                   convVars>>

\* line 124
FilterReturn ==
    /\ pc = "filter"
    /\ inst_i = Len(instances)
    /\ pc' = "filter_done"
    /\ UNCHANGED <<parseVars, vertices_map, pids_map, status, dst_format,
                   procVars, instances, filterVars, img_w, img_h, rrectVars,
                   convVars>>

NextFilter == FilterInstance \/ FilterReturn

SpecFilter == InitFilter /\ [][NextFilter]_vars

-----------------------------------------------------------------------------
(* vertices_to_rrect *)

Grid == (0..MaxCoord) \X (0..MaxCoord)

ExampleSquare == {Square(100, 300), <<<<300, 300>>, <<100, 100>>,
                                      <<100, 300>>, <<300, 100>>>>}

InitRrect ==
    /\ pc = "rrect"
    /\ vertices \in [1..3 -> Grid] \cup [1..4 -> Grid] \cup ExampleSquare
    /\ rot_rect = <<>>
    /\ status = "ok"
    /\ dst_format = "rrect"
    /\ IdleParse /\ IdleMaps /\ IdleProc /\ IdleInstances /\ IdleFilter
    /\ IdleImage /\ IdleConv

\* lines 36-55
RrectReturn ==
    /\ pc = "rrect"
    /\ VerticesToRrect(vertices).status = "ok"
    /\ rot_rect' = VerticesToRrect(vertices).rect
    /\ pc' = "rrect_done"
    /\ UNCHANGED <<parseVars, vertices_map, pids_map, status, dst_format,
                   procVars, instances, filterVars, img_w, img_h, vertices,
                   convVars>>

\* lines 49-52 on fewer than four vertices
RrectRaise ==
    /\ pc = "rrect"
    /\ VerticesToRrect(vertices).status # "ok"
    /\ status' = VerticesToRrect(vertices).status
    /\ pc' = "rrect_raised"
    /\ UNCHANGED <<parseVars, vertices_map, pids_map, dst_format, procVars,
                   instances, filterVars, img_w, img_h, rrectVars, convVars>>

NextRrect == RrectReturn \/ RrectRaise

SpecRrect == InitRrect /\ [][NextRrect]_vars

-----------------------------------------------------------------------------
(* convert_save *)

PointShape(l, g, p) ==
    [shape_type |-> "point", label |-> l, group_id |-> g, points |-> <<p>>]

GroupShapes(labels, g, vs) ==
    [i \in 1..Len(vs) |-> PointShape(labels[i], g, vs[i])]

LabelObj(ss) ==
    [json_ok |-> TRUE, imageWidth |-> 1000, imageHeight |-> 1000,
     shapes |-> ss]

BigGroup == GroupShapes(<<"3", "1", "0", "2">>, JInt(1), Square(100, 300))
ThinGroup == GroupShapes(<<"4", "5", "4", "4">>, JInt(2), Thin(100, 300, 102))
FarGroup == GroupShapes(<<"4", "4", "4", "5">>, JInt(2), Square(400, 600))
Ignored == <<PointShape("7", Null, <<5, 5>>)>>

\* the label files a data root may hold
LabelFiles ==
    { LabelObj(BigGroup),
      LabelObj(GroupShapes(<<"0", "1", "2", "3">>, Null, Square(0, 2))),
      LabelObj(GroupShapes(<<"0", "1", "2", "2">>, JInt(1), Square(100, 300))),
      LabelObj(BigGroup \o Ignored \o ThinGroup),
      LabelObj(BigGroup \o FarGroup),
      LabelObj(<<PointShape("0", Absent, <<100, 100>>)>>),
      [json_ok |-> FALSE, imageWidth |-> 0, imageHeight |-> 0,
       shapes |-> <<>>] }

StaleLine == <<[stem |-> 0, suffix |-> "png"], <<0, 0, 9, 9, 1>>>>
StaleFile == [exists |-> TRUE, lines |-> <<StaleLine>>]

\* lines 136-139
SaveLabelFile(fmt) == IF fmt = "rrect" THEN "rrect_all" ELSE "bbox_all"

OpenAppend(files, name) ==
    [files EXCEPT ![name] = [exists |-> TRUE, lines |-> @.lines]]

\* line 142: open(save_label_file, 'w')
OpenW(files, name) ==
    [files EXCEPT ![name] = [exists |-> TRUE, lines |-> <<>>]]

\* line 146
ImgRelativePath(i) == [stem |-> i, suffix |-> "png"]

\* lines 149-153: the three stages on one label file
Stages(file, fmt, thr) ==
    LET p == ParseLabelFile(file)
    IN  IF p.status # "ok" THEN [status |-> p.status, instances |-> <<>>]
        ELSE LET q == ProcessInstances(p.vertices_map, p.pids_map, fmt)
             IN  IF q.status # "ok"
                 THEN [status |-> q.status, instances |-> <<>>]
                 ELSE FilterSmallInstances(q.instances, p.img_w, p.img_h,
                                           thr, fmt)

\* lines 147, 155-156: a joined instance is kept as the tuple of its values
LineParts(i, insts) == <<ImgRelativePath(i)>> \o insts

ShouldWriteAlways(line_parts) == Len(line_parts) >= 1

\* line 157
ShouldWrite(line_parts) == Len(line_parts) >= 2

InitConvert ==
    /\ pc = "cs_call"
    /\ label_paths \in SeqsUpTo(LabelFiles, MaxFiles)
    /\ dst_format \in Formats
    /\ filter_threshold = DefaultFilterThreshold
    /\ fs \in [{"rrect_all", "bbox_all"} -> {NoFile, StaleFile}]
    /\ fs0 = fs
    /\ f = "unopened"
    /\ file_i = 0
    /\ status = "ok"
    /\ inst_i = 0 /\ filtered_instances = <<>>
    /\ IdleParse /\ IdleMaps /\ IdleProc /\ IdleInstances /\ IdleImage
    /\ IdleRrect

\* lines 140-141
CSUnsupported ==
    /\ pc = "cs_call"
    /\ ~Supported(dst_format)
    /\ status' = "ValueError"
    /\ pc' = "cs_raised"
    /\ UNCHANGED <<parseVars, vertices_map, pids_map, dst_format, procVars,
                   instances, filterVars, img_w, img_h, rrectVars, convVars>>

\* lines 136-144
CSOpen ==
    /\ pc = "cs_call"
    /\ Supported(dst_format)
    /\ fs' = OpenW(fs, SaveLabelFile(dst_format))
    /\ f' = "open"
    /\ pc' = "cs_loop"
    /\ UNCHANGED <<parseVars, vertices_map, pids_map, status, dst_format,
                   procVars, instances, filterVars, img_w, img_h, rrectVars,
                   label_paths, file_i, fs0>>

\* a loop that survives a label file it cannot handle
CSIterSwallow ==
    /\ pc = "cs_loop"
    /\ file_i < Len(label_paths)
    /\ Stages(label_paths[file_i + 1], dst_format, filter_threshold).status
         # "ok"
    /\ file_i' = file_i + 1
    /\ UNCHANGED <<pc, parseVars, vertices_map, pids_map, status, dst_format,
                   procVars, instances, filterVars, img_w, img_h, rrectVars,
                   label_paths, fs, fs0, f>>

\* lines 145-153: an iteration in which a stage raises
CSIterRaise ==
    /\ pc = "cs_loop"
    /\ file_i < Len(label_paths)
    /\ Stages(label_paths[file_i + 1], dst_format, filter_threshold).status
         # "ok"
    /\ status' = Stages(label_paths[file_i + 1], dst_format,
                        filter_threshold).status
    /\ file_i' = file_i + 1
    /\ pc' = "cs_raised"
    /\ UNCHANGED <<parseVars, vertices_map, pids_map, dst_format, procVars,
                   instances, filterVars, img_w, img_h, rrectVars,
                   label_paths, fs, fs0, f>>

\* lines 145-158: an iteration that runs to its end
CSIter ==
    /\ pc = "cs_loop"
    /\ file_i < Len(label_paths)
    /\ LET r == Stages(label_paths[file_i + 1], dst_format, filter_threshold)
           line_parts == LineParts(file_i + 1, r.instances)
       IN  /\ r.status = "ok"
           /\ fs' = IF ShouldWrite(line_parts)
                    THEN [fs EXCEPT ![SaveLabelFile(dst_format)].lines =
                                        Append(@, line_parts)]
                    ELSE fs
    /\ file_i' = file_i + 1
    /\ UNCHANGED <<pc, parseVars, vertices_map, pids_map, status, dst_format,
                   procVars, instances, filterVars, img_w, img_h, rrectVars,
                   label_paths, fs0, f>>

\* line 160
CSClose ==
    /\ pc = "cs_loop"
    /\ file_i = Len(label_paths)
    /\ f' = "closed"
    /\ pc' = "cs_returned"
    /\ UNCHANGED <<parseVars, vertices_map, pids_map, status, dst_format,
                   procVars, instances, filterVars, img_w, img_h, rrectVars,
                   label_paths, file_i, fs, fs0>>

NextConvert == CSUnsupported \/ CSOpen \/ CSIterRaise \/ CSIter \/ CSClose

SpecConvert == InitConvert /\ [][NextConvert]_vars

-----------------------------------------------------------------------------
(* Properties of parse_label_file *)

\* C9: after every shape, grouped or excluded, vertices_map and pids_map
\* have the same keys, and under each key as many vertices as part ids.
C9_ParallelMaps ==
    /\ Keys(vertices_map) = Keys(pids_map)
    /\ Len(vertices_map) = Cardinality(Keys(vertices_map))
    /\ Len(pids_map) = Cardinality(Keys(pids_map))
    /\ \A key \in Keys(vertices_map) :
        Len(Get(vertices_map, key)) = Len(Get(pids_map, key))

C9_Witness ==
    /\ pc = "parse_done"
    /\ \E i \in 1..Len(shapes) : Excluded(shapes[i])
    /\ \E key \in Keys(pids_map) : Len(Get(pids_map, key)) = 2

FalsyGroupIds == {Absent, Null, JInt(0)}

\* C5: points whose group_id is absent, null or 0 all land in group 0: a
\* file made of such points parses and yields the single group 0 holding
\* every one of them, in file order.
C5_FalsyGroupIdsMerge ==
    ( /\ pc \in {"parse_done", "parse_raised"}
      /\ shapes # <<>>
      /\ \A i \in 1..Len(shapes) :
            ~Excluded(shapes[i]) /\ shapes[i].group_id \in FalsyGroupIds )
    => /\ pc = "parse_done"
       /\ Keys(vertices_map) = {0}
       /\ Get(vertices_map, 0) = [i \in 1..Len(shapes) |-> shapes[i].points[1]]
       /\ Get(pids_map, 0) = [i \in 1..Len(shapes) |-> ParseInt(shapes[i].label)]

-----------------------------------------------------------------------------
(* Properties of process_instances *)

Count(s, x) == Cardinality({i \in 1..Len(s) : s[i] = x})

IsPermutation(s, t) ==
    /\ Len(s) = Len(t)
    /\ \A i \in 1..Len(s) : Count(s, s[i]) = Count(t, s[i])

HasKey(pids) == \E key \in DOMAIN valid_pids_map : IsPermutation(key, pids)

ClassOf(pids) ==
    valid_pids_map[CHOOSE key \in DOMAIN valid_pids_map :
                        IsPermutation(key, pids)]

RECURSIVE ExpectedLabels(_)
ExpectedLabels(n) ==
    IF n = 0 THEN <<>>
    ELSE IF HasKey(pids_map[n].v)
         THEN Append(ExpectedLabels(n - 1), ClassOf(pids_map[n].v))
         ELSE ExpectedLabels(n - 1)

\* C3: with a supported format, each group handled so far whose part ids
\* are those of a catalogue key has yielded exactly one instance, carrying
\* that key's class label; every other group has yielded nothing; no group
\* makes the call fail, so the groups after a rejected one are handled too.
C3_CatalogueDecides ==
    (pc \in {"proc", "proc_done", "proc_raised"} /\ Supported(dst_format))
    => /\ pc # "proc_raised"
       /\ status = "ok"
       /\ pc = "proc_done" => group_i = Len(pids_map)
       /\ [i \in 1..Len(instances) |-> instances[i][Len(instances[i])]]
            = ExpectedLabels(group_i)

C3_Witness ==
    /\ pc = "proc_done"
    /\ Supported(dst_format)
    /\ Len(pids_map) = 2
    /\ ~HasKey(pids_map[1].v)
    /\ HasKey(pids_map[2].v)
    /\ Len(instances) = 1

\* C7: a call with an unsupported dst_format always ends in the
\* unsupported-format error, whatever the groups are.
C7_UnsupportedAlwaysFails ==
    (pc \in {"proc_done", "proc_raised"} /\ ~Supported(dst_format))
    => (pc = "proc_raised" /\ status = "ValueError")

-----------------------------------------------------------------------------
(* Properties of filter_small_instances *)

C2_Width(inst) ==
    IF dst_format = "bbox" THEN inst[3] - inst[1] ELSE inst[3]

C2_Height(inst) ==
    IF dst_format = "bbox" THEN inst[4] - inst[2] ELSE inst[4]

\* width / image_width >= threshold and height / image_height >= threshold
C2_Passes(inst) ==
    /\ C2_Width(inst) * FilterThresholdDen >= filter_threshold * img_w
    /\ C2_Height(inst) * FilterThresholdDen >= filter_threshold * img_h

\* C2: the result is the input list without exactly the instances whose
\* relative width or relative height is under the threshold, the others
\* unchanged and in their original order.
C2_FilterDropsIffSmall ==
    (pc \in {"filter", "filter_done"} /\ Supported(dst_format))
    => /\ status = "ok"
       /\ filtered_instances
            = SelectSeq(SubSeq(instances, 1, inst_i), C2_Passes)

C2_Witness ==
    /\ pc = "filter_done"
    /\ dst_format = "bbox"
    /\ Len(instances) = 2
    /\ Len(filtered_instances) = 1
    /\ C2_Width(instances[1]) * FilterThresholdDen >= filter_threshold * img_w
    /\ C2_Height(instances[1]) * FilterThresholdDen < filter_threshold * img_h
    /\ filtered_instances[1] = instances[2]

-----------------------------------------------------------------------------
(* Properties of vertices_to_rrect *)

IsAxisSquare(vs, a, s) ==
    /\ Len(vs) = 4
    /\ {vs[i] : i \in 1..4}
         = {<<a, a>>, <<a + s, a>>, <<a + s, a + s>>, <<a, a + s>>}

\* C4: for four vertices, width is the mean of the lengths of the edges
\* 0-1 and 2-3 of the angle-sorted vertices and height the mean of the
\* lengths of the edges 1-2 and 3-0; the corners of an axis-aligned square
\* of side s give its centre, width s and height s.
C4_WidthHeightAreMeans ==
    (pc = "rrect_done" /\ Len(vertices) = 4)
    => LET b == SortedVertices(vertices)
       IN  /\ 2 * rot_rect[3] = Norm(b[2], b[1]) + Norm(b[4], b[3])
           /\ 2 * rot_rect[4] = Norm(b[3], b[2]) + Norm(b[1], b[4])
           /\ \A a \in {0, 100}, s \in {2, 200} :
                IsAxisSquare(vertices, a, s)
                => rot_rect = <<a + s \div 2, a + s \div 2, s, s>>

-----------------------------------------------------------------------------
(* Properties of convert_save *)

OwnFile == fs[SaveLabelFile(dst_format)]

\* what the three stages make of each label file, under each format
StagesOf ==
    [file \in LabelFiles |->
        [fmt \in {"rrect", "bbox"} |->
            Stages(file, fmt, DefaultFilterThreshold)]]

ParseOf == [file \in LabelFiles |-> ParseLabelFile(file)]

Survivors(i) == StagesOf[label_paths[i]][dst_format]

FailsToParse(i) == ParseOf[label_paths[i]].status # "ok"

\* the lines the first n label files produce, in traversal order
RECURSIVE ExpectedLines(_)
ExpectedLines(n) ==
    IF n = 0 THEN <<>>
    ELSE IF Survivors(n).status = "ok" /\ Survivors(n).instances # <<>>
         THEN Append(ExpectedLines(n - 1),
                     <<ImgRelativePath(n)>> \o Survivors(n).instances)
         ELSE ExpectedLines(n - 1)

\* C1: when every label file parses, the output holds exactly one line for
\* each image with a surviving instance, in traversal order, none for an
\* image whose groups are all rejected or filtered, and no line is an image
\* path alone.
C1_OneLinePerSurvivingImage ==
    (pc \in {"cs_loop", "cs_returned"})
    => /\ OwnFile.lines = ExpectedLines(file_i)
       /\ pc = "cs_returned" => file_i = Len(label_paths)
       /\ \A j \in 1..Len(OwnFile.lines) : Len(OwnFile.lines[j]) >= 2

C1_Witness ==
    /\ pc = "cs_returned"
    /\ Len(label_paths) = 3
    /\ Len(OwnFile.lines) = 1
    /\ OwnFile.lines[1][1] = ImgRelativePath(2)
    /\ ParseOf[label_paths[1]].pids_map # <<>>
    /\ ProcessInstances(ParseOf[label_paths[3]].vertices_map,
                        ParseOf[label_paths[3]].pids_map,
                        dst_format).instances # <<>>

\* C6: no way out of convert_save leaves the opened handle open.
C6_HandleClosedOnEveryExit ==
    (pc \in {"cs_returned", "cs_raised"}) => f # "open"

\* C8: when the k-th label file fails to parse the run ends there: k files
\* have been handed to the parser and no more, and the output holds exactly
\* the lines of the k - 1 files before it, in traversal order.
C8_AbortKeepsPrefix ==
    \A k \in 1..Len(label_paths) :
        (FailsToParse(k) /\ file_i >= k)
        => /\ pc = "cs_raised"
           /\ status # "ok"
           /\ file_i = k
           /\ OwnFile.lines = ExpectedLines(k - 1)

C8_Witness ==
    /\ pc = "cs_raised"
    /\ Len(label_paths) = 3
    /\ file_i = 2
    /\ FailsToParse(2)
    /\ Len(OwnFile.lines) = 1
    /\ Survivors(3).instances # <<>>

OtherFile(name) == IF name = "rrect_all" THEN "bbox_all" ELSE "rrect_all"

\* C10: an unsupported dst_format raises before anything is opened or
\* read, leaving both output files as they were; a supported one truncates
\* its own output file first, so that file holds only lines of this run,
\* and leaves the other output file alone.
C10_RaiseBeforeOpen ==
    /\ ~Supported(dst_format)
        => /\ fs = fs0
           /\ f = "unopened"
           /\ file_i = 0
           /\ pc \in {"cs_call", "cs_raised"}
           /\ pc = "cs_raised" => status = "ValueError"
    /\ Supported(dst_format)
        => /\ pc = "cs_call" => fs = fs0 /\ f = "unopened"
           /\ pc # "cs_call" =>
                /\ OwnFile.exists
                /\ OwnFile.lines = ExpectedLines(
                       IF pc = "cs_raised" THEN file_i - 1 ELSE file_i)
                /\ \A j \in 1..Len(OwnFile.lines) :
                      OwnFile.lines[j][1].stem \in 1..Len(label_paths)
                /\ fs[OtherFile(SaveLabelFile(dst_format))]
                     = fs0[OtherFile(SaveLabelFile(dst_format))]

C10_Witness ==
    /\ pc = "cs_raised"
    /\ ~Supported(dst_format)
    /\ fs0["rrect_all"] = StaleFile
    /\ fs0["bbox_all"] = NoFile
    /\ label_paths # <<>>

====
